---- MODULE Spec2Model ----
(***************************************************************************)
(* Model of the vision inference server (src/inference-server/server.py):  *)
(* module start-up (import of the detection library, model load), the      *)
(* three Flask routes /health, /detect and /detect/stream, and the helpers *)
(* decode_image and detect_objects they call.                              *)
(*                                                                         *)
(* Library calls are modelled by what they compute:                        *)
(*   - base64.b64decode is binascii.a2b_base64 in its default, non-strict  *)
(*     mode (characters outside the alphabet are skipped, a completed pad  *)
(*     ends the input, a dangling quantum is an error);                    *)
(*   - max_size / max(size) and dim * ratio are IEEE-754 double operations *)
(*     (round to nearest, ties to even) followed by int()'s truncation;    *)
(*   - Image.open identifies an image by its header and reads the size     *)
(*     from it; the model's container is a magic byte followed by width    *)
(*     and height as two big-endian bytes each;                            *)
(*   - the YOLO model is an opaque collaborator: per call it either raises *)
(*     or yields boxes, and reading a box may raise.                       *)
(***************************************************************************)
EXTENDS Integers, Sequences, FiniteSets, TLC

VARIABLES
    pc,               \* "import" | "load": position in module start-up;
                      \* "serving": waiting for a request; "responded": a
                      \* handler has returned its response
    MODEL_AVAILABLE,  \* server.py global flag
    model,            \* server.py global model handle: "None" | "YOLO"
    startup,          \* history: outcome of start-up, "pending" | "loaded" | "unavailable"
    failed_before,    \* history: some request's inference has raised
    request,          \* the request handled last
    response,         \* the response given to it
    trace             \* what the handler did on the way (decoder, resizer, detector)

vars == <<pc, MODEL_AVAILABLE, model, startup, failed_before, request, response,
          trace>>

----------------------------------------------------------------------------
(* Bounds of the model *)

MaxDim == 1000        \* largest image width / height drawn
MaxBoxes == 2         \* most boxes the model yields for one image

----------------------------------------------------------------------------
(* Characters of an image string.  0..63 are the base64 alphabet (the      *)
(* digit's value); the three codes above it are '=', ',' and a character   *)
(* outside the alphabet such as '!'.                                       *)

PAD == 64
COMMA == 65
JUNK == 66

Char == 0..66

RECURSIVE SeqIndexOf(_, _, _)
(* str.find: index of the first c in s at or after i, 0 when there is none *)
SeqIndexOf(s, c, i) ==
    IF i > Len(s) THEN 0
    ELSE IF s[i] = c THEN i
    ELSE SeqIndexOf(s, c, i + 1)

Contains(s, c) == SeqIndexOf(s, c, 1) # 0

(* str.split(',')[1]: the text between the first and the second comma      *)
(* (to the end when there is no second comma)                              *)
SplitSecond(s) ==
    LET first  == SeqIndexOf(s, COMMA, 1)
        second == SeqIndexOf(s, COMMA, first + 1)
        last   == IF second = 0 THEN Len(s) ELSE second - 1
    IN  SubSeq(s, first + 1, last)

----------------------------------------------------------------------------
(* base64 *)

B64Ok(bytes) == [ok |-> TRUE, bytes |-> bytes]
B64Error == [ok |-> FALSE, bytes |-> <<>>]

RECURSIVE A2B(_, _, _, _, _, _)
(* binascii.a2b_base64, strict_mode off: the decoding loop.  quad_pos is   *)
(* the position in the current 4-digit quantum, leftchar the bits carried  *)
(* over, pads the run of '=' seen, out the bytes written.                  *)
A2B(s, i, quad_pos, leftchar, pads, out) ==
    IF i > Len(s)
    THEN IF quad_pos # 0 THEN B64Error ELSE B64Ok(out)
    ELSE LET ch == s[i] IN
         IF ch = PAD
         THEN IF quad_pos >= 2
              THEN IF quad_pos + pads + 1 >= 4
                   THEN B64Ok(out)
                   ELSE A2B(s, i + 1, quad_pos, leftchar, pads + 1, out)
              ELSE A2B(s, i + 1, quad_pos, leftchar, pads, out)
         ELSE IF ch >= 64
         THEN A2B(s, i + 1, quad_pos, leftchar, pads, out)
         ELSE CASE quad_pos = 0 ->
                     A2B(s, i + 1, 1, ch, 0, out)
                [] quad_pos = 1 ->
                     A2B(s, i + 1, 2, ch % 16, 0,
                         Append(out, (leftchar * 4 + ch \div 16) % 256))
                [] quad_pos = 2 ->
                     A2B(s, i + 1, 3, ch % 4, 0,
                         Append(out, (leftchar * 16 + ch \div 4) % 256))
                [] OTHER ->
                     A2B(s, i + 1, 0, 0, 0,
                         Append(out, (leftchar * 64 + ch) % 256))

(* base64.b64decode(s) with validate left at its default False *)
b64decode(s) == A2B(s, 1, 0, 0, 0, <<>>)

RECURSIVE b64encode(_)
(* base64.b64encode: what a client does to build the `image` string *)
b64encode(bytes) ==
    IF Len(bytes) = 0 THEN <<>>
    ELSE IF Len(bytes) = 1
    THEN <<bytes[1] \div 4, (bytes[1] % 4) * 16, PAD, PAD>>
    ELSE IF Len(bytes) = 2
    THEN <<bytes[1] \div 4, (bytes[1] % 4) * 16 + bytes[2] \div 16,
           (bytes[2] % 16) * 4, PAD>>
    ELSE <<bytes[1] \div 4, (bytes[1] % 4) * 16 + bytes[2] \div 16,
           (bytes[2] % 16) * 4 + bytes[3] \div 64, bytes[3] % 64>>
         \o b64encode(SubSeq(bytes, 4, Len(bytes)))

----------------------------------------------------------------------------
(* PIL.Image.open *)

MAGIC == 137

(* the bytes of an encoded image of the given size *)
ImageBytes(w, h) == <<MAGIC, w \div 256, w % 256, h \div 256, h % 256>>

NoImage == [ok |-> FALSE, w |-> 0, h |-> 0]

(* Image.open(io.BytesIO(image_bytes)): the image (its size) when the      *)
(* header identifies one, UnidentifiedImageError (ok = FALSE) otherwise    *)
ImageOpen(bytes) ==
    IF Len(bytes) >= 5 /\ bytes[1] = MAGIC
    THEN [ok |-> TRUE, w |-> bytes[2] * 256 + bytes[3],
                       h |-> bytes[4] * 256 + bytes[5]]
    ELSE NoImage

----------------------------------------------------------------------------
(* JSON values: the `image` and `timestamp` members of a request object    *)

JNull == [kind |-> "null", n |-> 0, chars |-> <<>>]
JNum(n) == [kind |-> "num", n |-> n, chars |-> <<>>]
JStr(chars) == [kind |-> "str", n |-> 0, chars |-> chars]

----------------------------------------------------------------------------
(* decode_image *)

NoParse == [called |-> FALSE, bytes |-> <<>>]

(* decode_image(image_data): `image` is the PIL image or None (ok = FALSE),*)
(* `parser` records the bytes handed to Image.open.  Every exception of    *)
(* the body (the TypeError of `',' in image_data` on a non-string, the     *)
(* binascii.Error of b64decode, the error of Image.open) is caught and     *)
(* turned into None.                                                       *)
decode_image(image_data) ==
    IF image_data.kind # "str"
    THEN [image |-> NoImage, parser |-> NoParse]
    ELSE LET payload == IF Contains(image_data.chars, COMMA)
                        THEN SplitSecond(image_data.chars)
                        ELSE image_data.chars
             decoded == b64decode(payload)
         IN  IF ~decoded.ok
             THEN [image |-> NoImage, parser |-> NoParse]
             ELSE [image  |-> ImageOpen(decoded.bytes),
                   parser |-> [called |-> TRUE, bytes |-> decoded.bytes]]

----------------------------------------------------------------------------
(* The resize arithmetic of detect_stream *)

max_size == 640

Max(a, b) == IF a >= b THEN a ELSE b

RECURSIVE Pow2(_)
Pow2(n) == IF n = 0 THEN 1 ELSE 2 * Pow2(n - 1)

RECURSIVE Pow2Mod(_, _)
(* 2^n mod L *)
Pow2Mod(n, L) == IF n = 0 THEN 1 % L ELSE (2 * Pow2Mod(n - 1, L)) % L

RECURSIVE RatioExp(_, _)
(* the e >= from with 2^-e <= max_size / L < 2^-(e-1), for L > max_size *)
RatioExp(L, from) ==
    IF max_size * Pow2(from) >= L THEN from ELSE RatioExp(L, from + 1)

RECURSIVE Log2(_, _)
(* the m >= from with 2^m <= q < 2^(m+1), for q >= 1 *)
Log2(q, from) == IF Pow2(from + 1) > q THEN from ELSE Log2(q, from + 1)

(* int(dim * ratio) with ratio = max_size / L, both operations in IEEE-754 *)
(* binary64.  ratio is the double nearest to max_size / L: its 53-bit      *)
(* significand is M = round(max_size * 2^(52+e) / L), and r below is the   *)
(* remainder of that division, so ratio was rounded down exactly when      *)
(* 0 < 2r < L.  Where dim * max_size / L is not an integer the double      *)
(* product stays strictly between the same two integers and int() gives    *)
(* the floor q.  Where it is the integer q and ratio was rounded down, the *)
(* exact product dim * ratio lies dim * r / (L * 2^(52+e)) below q, and    *)
(* the product rounds to the double below q (int() then gives q - 1) when  *)
(* that gap exceeds half the spacing of the doubles just below q:          *)
(* 2^(m-53), or 2^(m-54) when q = 2^m.                                     *)
ScaleDim(dim, L) ==
    LET e == RatioExp(L, 1)
        r == ((max_size % L) * Pow2Mod(52 + e, L)) % L
        q == (dim * max_size) \div L
        s == (dim * max_size) % L
    IN  IF s # 0 \/ r = 0 \/ 2 * r > L
        THEN q
        ELSE LET m == Log2(q, 0)
                 half == IF q = Pow2(m) THEN 4 ELSE 2
             IN  IF half * dim * r > L * Pow2(e + m) THEN q - 1 ELSE q

(* new_size = tuple(int(dim * ratio) for dim in image.size) *)
new_size(w, h) ==
    [w |-> ScaleDim(w, Max(w, h)), h |-> ScaleDim(h, Max(w, h))]

----------------------------------------------------------------------------
(* Request bodies.  kind "absent" is a request without a body; the other   *)
(* kinds are the JSON values a body can hold.  n is the value of a number  *)
(* (0 / 1 for false / true), text the characters of a string, items the    *)
(* elements (strings) of a list, keys / image / timestamp the members of   *)
(* an object.                                                              *)

Body(kind, n, text, items, keys, image, timestamp) ==
    [kind |-> kind, n |-> n, text |-> text, items |-> items, keys |-> keys,
     image |-> image, timestamp |-> timestamp]

BAbsent == Body("absent", 0, <<>>, <<>>, {}, JNull, JNull)
BNull == Body("null", 0, <<>>, <<>>, {}, JNull, JNull)
BBool(b) == Body("bool", IF b THEN 1 ELSE 0, <<>>, <<>>, {}, JNull, JNull)
BNum(n) == Body("num", n, <<>>, <<>>, {}, JNull, JNull)
BStr(text) == Body("str", 0, text, <<>>, {}, JNull, JNull)
BList(items) == Body("list", 0, <<>>, items, {}, JNull, JNull)
BObj(keys, image, timestamp) ==
    Body("obj", 0, <<>>, <<>>, keys,
         IF "image" \in keys THEN image ELSE JNull,
         IF "timestamp" \in keys THEN timestamp ELSE JNull)

(* Python's truth value of the parsed body: `not data` is its negation *)
Truthy(data) ==
    CASE data.kind \in {"absent", "null"} -> FALSE
      [] data.kind \in {"bool", "num"} -> data.n # 0
      [] data.kind = "str" -> Len(data.text) > 0
      [] data.kind = "list" -> Len(data.items) > 0
      [] OTHER -> data.keys # {}

IsSubstring(needle, text) ==
    \E i \in 0..(Len(text) - Len(needle)) :
        SubSeq(text, i + 1, i + Len(needle)) = needle

ImageWord == <<"i", "m", "a", "g", "e">>

(* `'image' in data`: key membership on a dict, substring on a str,        *)
(* element membership on a list, TypeError on a number or a boolean        *)
InData(data) ==
    CASE data.kind = "obj" -> [raised |-> FALSE, value |-> "image" \in data.keys]
      [] data.kind = "str" ->
            [raised |-> FALSE, value |-> IsSubstring(ImageWord, data.text)]
      [] data.kind = "list" ->
            [raised |-> FALSE,
             value |-> \E i \in 1..Len(data.items) : data.items[i] = "image"]
      [] OTHER -> [raised |-> TRUE, value |-> FALSE]

----------------------------------------------------------------------------
(* The detector *)

CONF_THRESHOLD == 25      \* conf=0.25, in hundredths

(* result.names: class id -> class name *)
names == [c \in {0, 1} |-> IF c = 0 THEN "person" ELSE "car"]

(* the boxes the model can yield: class id, confidence in hundredths (the  *)
(* model keeps a box only at or above the threshold it is called with),    *)
(* pixel corners and normalised centre / size                              *)
Boxes ==
    { [cls |-> 0, conf |-> CONF_THRESHOLD, xyxy |-> <<0, 0, 1, 1>>,
       xywhn |-> <<50, 50, 100, 100>>],
      [cls |-> 1, conf |-> 100, xyxy |-> <<0, 0, 1, 1>>,
       xywhn |-> <<50, 50, 100, 100>>] }

BoxSeqs == UNION { [1..n -> Boxes] : n \in 0..MaxBoxes }

(* what the model does in one call: `raises` when model(image, ...) itself *)
(* raises; otherwise it yields `boxes`, and reading box number `bad`       *)
(* raises (0: none does)                                                   *)
NoOutcome == [raises |-> FALSE, boxes |-> <<>>, bad |-> 0]

Outcomes ==
    { [raises |-> TRUE, boxes |-> <<>>, bad |-> 0] }
    \cup UNION { { [raises |-> FALSE, boxes |-> b, bad |-> k] :
                      k \in 0..Len(b) } : b \in BoxSeqs }

(* Detection, had the confidence been reported as a percentage *)
DetectionAsPercent(box) ==
    [class |-> names[box.cls], confidence |-> box.conf * 100,
     bbox |-> box.xyxy, bbox_normalized |-> box.xywhn]

Detection(box) ==
    [class |-> names[box.cls], confidence |-> box.conf,
     bbox |-> box.xyxy, bbox_normalized |-> box.xywhn]

RECURSIVE Extract(_, _, _, _)
(* the extraction loop of detect_objects over the boxes of the result *)
Extract(boxes, i, bad, detections) ==
    IF i > Len(boxes) THEN [raised |-> FALSE, detections |-> detections]
    ELSE IF i = bad THEN [raised |-> TRUE, detections |-> detections]
    ELSE Extract(boxes, i + 1, bad, Append(detections, Detection(boxes[i])))

(* the except clause of detect_objects, had it let the exception go on *)
detect_objects_reraise(run) == run

(* the except clause of detect_objects: log and return [] *)
detect_objects_except(run) ==
    [raised |-> FALSE, detections |-> <<>>]

(* detect_objects, had it lacked the availability guard of lines 59-60 *)
detect_objects_unguarded(image, out) ==
    LET run == IF out.raises
               THEN [raised |-> TRUE, detections |-> <<>>]
               ELSE Extract(out.boxes, 1, out.bad, <<>>)
        res == IF run.raised THEN detect_objects_except(run) ELSE run
    IN  [raised |-> res.raised, detections |-> res.detections, invoked |-> TRUE]

(* detect_objects(image), the model behaving as `out` when it is called.   *)
(* invoked: whether model(image, ...) was called.                          *)
detect_objects(image, out) ==
    IF ~MODEL_AVAILABLE \/ model = "None"
    THEN [raised |-> FALSE, detections |-> <<>>, invoked |-> FALSE]
    ELSE LET run == IF out.raises
                    THEN [raised |-> TRUE, detections |-> <<>>]
                    ELSE Extract(out.boxes, 1, out.bad, <<>>)
             res == IF run.raised THEN detect_objects_except(run) ELSE run
         IN  [raised |-> res.raised, detections |-> res.detections,
              invoked |-> TRUE]

----------------------------------------------------------------------------
(* Responses: the status and the members of the JSON body.  `fields` names *)
(* the members the body has; a member it lacks holds its default below.    *)

Response(status, fields, error, state, loaded, success, detections, count, ts) ==
    [status |-> status, fields |-> fields, error |-> error, health |-> state,
     model_loaded |-> loaded, success |-> success, detections |-> detections,
     count |-> count, timestamp |-> ts]

NoResponse == Response(0, {}, "", "", FALSE, FALSE, <<>>, 0, JNull)

(* jsonify({'error': message}), status *)
JsonError(status, message) ==
    Response(status, {"error"}, message, "", FALSE, FALSE, <<>>, 0, JNull)

(* what a handler did: the bytes handed to Image.open, the decoded image,  *)
(* the image passed to detect_objects, whether the model was called and    *)
(* how it behaved                                                          *)
NoFed == [called |-> FALSE, w |-> 0, h |-> 0]

Trace(parser, image, fed, invoked, outcome) ==
    [parser |-> parser, image |-> image, fed |-> fed, invoked |-> invoked,
     outcome |-> outcome]

NoTrace == Trace(NoParse, NoImage, NoFed, FALSE, NoOutcome)

Fed(image) == [called |-> TRUE, w |-> image.w, h |-> image.h]

(* request.json.  For a request without a usable JSON body Flask either    *)
(* hands back None or raises an HTTPException (415 / 400), depending on    *)
(* the Content-Type header and the Flask version: `rejects` chooses.       *)
request_json(body, rejects) ==
    IF body.kind = "absent" /\ rejects
    THEN [raised |-> TRUE, data |-> BNull]
    ELSE [raised |-> FALSE, data |-> IF body.kind = "absent" THEN BNull ELSE body]

(* Image.resize(new_size, LANCZOS): ValueError unless both sides are >= 1 *)
resize(size) ==
    IF size.w < 1 \/ size.h < 1
    THEN [raised |-> TRUE, image |-> NoImage]
    ELSE [raised |-> FALSE, image |-> [ok |-> TRUE, w |-> size.w, h |-> size.h]]

(* the resize step of detect_stream *)
resize_if_needed(image) ==
    IF Max(image.w, image.h) > max_size
    THEN resize(new_size(image.w, image.h))
    ELSE [raised |-> FALSE, image |-> image]

(* the except clause of a route: 500 with the exception's message *)
endpoint_except(message, tr) ==
    [response |-> JsonError(500, message), trace |-> tr]

(* the part of both routes up to the decoded image: `done` with the        *)
(* response when the route returns before detection                        *)
decode_request(body, rejects) ==
    LET rj == request_json(body, rejects)
        data == rj.data
        has == InData(data)
        dec == decode_image(data.image)
        tr == Trace(dec.parser, dec.image, NoFed, FALSE, NoOutcome)
        Done(r) == [done |-> TRUE, response |-> r.response, trace |-> r.trace,
                    data |-> data]
    IN  IF rj.raised
        THEN Done(endpoint_except("request body is not JSON", NoTrace))
        ELSE IF ~Truthy(data)
        THEN Done([response |-> JsonError(400, "No image data provided"),
                   trace |-> NoTrace])
        ELSE IF has.raised
        THEN Done(endpoint_except("argument is not iterable", NoTrace))
        ELSE IF ~has.value
        THEN Done([response |-> JsonError(400, "No image data provided"),
                   trace |-> NoTrace])
        ELSE IF data.kind # "obj"
        THEN Done(endpoint_except("indices must be integers", NoTrace))
        ELSE IF ~dec.image.ok
        THEN Done([response |-> JsonError(400, "Failed to decode image"),
                   trace |-> tr])
        ELSE [done |-> FALSE, response |-> NoResponse, trace |-> tr,
              data |-> data]

(* the success body of /detect *)
detect_success(detections) ==
    Response(200, {"success", "detections", "count"}, "", "", FALSE, TRUE,
             detections, Len(detections), JNull)

(* POST /detect *)
detect(body, rejects, out) ==
    LET pre == decode_request(body, rejects)
        image == pre.trace.image
        det == detect_objects(image, out)
        tr == Trace(pre.trace.parser, image, Fed(image), det.invoked,
                    IF det.invoked THEN out ELSE NoOutcome)
    IN  IF pre.done THEN [response |-> pre.response, trace |-> pre.trace]
        ELSE IF det.raised THEN endpoint_except("detection failed", tr)
        ELSE [response |-> detect_success(det.detections), trace |-> tr]

(* data.get('timestamp', 0): a default other than None *)
get_timestamp_zero_default(data) ==
    IF "timestamp" \in data.keys THEN data.timestamp ELSE JNum(0)

(* data.get('timestamp', None) *)
get_timestamp(data) ==
    IF "timestamp" \in data.keys THEN data.timestamp ELSE JNull

(* the success body of /detect/stream *)
stream_success(detections, data) ==
    Response(200, {"detections", "count", "timestamp"}, "", "", FALSE, FALSE,
             detections, Len(detections), get_timestamp(data))

(* POST /detect/stream *)
detect_stream(body, rejects, out) ==
    LET pre == decode_request(body, rejects)
        rs == resize_if_needed(pre.trace.image)
        image == rs.image
        det == detect_objects(image, out)
        tr == Trace(pre.trace.parser, pre.trace.image, Fed(image), det.invoked,
                    IF det.invoked THEN out ELSE NoOutcome)
    IN  IF pre.done THEN [response |-> pre.response, trace |-> pre.trace]
        ELSE IF rs.raised
        THEN endpoint_except("height and width must be > 0", pre.trace)
        ELSE IF det.raised THEN endpoint_except("detection failed", tr)
        ELSE [response |-> stream_success(det.detections, pre.data),
              trace |-> tr]

(* GET /health *)
health ==
    Response(200, {"status", "model_loaded"}, "", "healthy",
             MODEL_AVAILABLE /\ model # "None", FALSE, <<>>, 0, JNull)

----------------------------------------------------------------------------
(* The requests drawn *)

Dims == {1, 537, 640, 641, 716, MaxDim}

Sizes == Dims \X Dims

(* the text before the comma of a data URL *)
Prefix == <<29, 26, 45, 26, JUNK>>

(* some more base64 text *)
MoreText == <<16, 20, 9, 3>>

Encoded(size) == b64encode(ImageBytes(size[1], size[2]))

(* the `image` strings built from an image: its base64 text, that text as  *)
(* a data URL, with a character outside the alphabet inside it, followed   *)
(* by a second comma and more text, cut in two by a second comma, and      *)
(* without its padding                                                     *)
ImageStrings(size) ==
    LET b == Encoded(size) IN
    { b,
      Prefix \o <<COMMA>> \o b,
      SubSeq(b, 1, 3) \o <<JUNK>> \o SubSeq(b, 4, Len(b)),
      Prefix \o <<COMMA>> \o b \o <<COMMA>> \o MoreText,
      Prefix \o <<COMMA>> \o SubSeq(b, 1, 4) \o <<COMMA>> \o SubSeq(b, 5, Len(b)),
      SubSeq(b, 1, Len(b) - 1) }

(* `image` values that hold no image: base64 of other bytes, text that is  *)
(* no base64, the empty string, a number, null                             *)
OtherImageValues ==
    { JStr(b64encode(<<65, 66, 67>>)), JStr(<<16, 20, 9>>), JStr(<<JUNK, 16>>),
      JStr(<<>>), JNum(5), JNull }

ImageValues ==
    { JStr(s) : s \in UNION { ImageStrings(size) : size \in Sizes } }
    \cup OtherImageValues

Timestamps == { JNull, JNum(12345), JStr(<<16>>) }

Bodies ==
    { BAbsent, BNull, BBool(FALSE), BBool(TRUE), BNum(0), BNum(5),
      BStr(<<>>), BStr(<<"a">>), BStr(ImageWord), BStr(<<"x">> \o ImageWord),
      BList(<<>>), BList(<<"a">>), BList(<<"image">>),
      BObj({}, JNull, JNull) }
    \cup { BObj({"timestamp"}, JNull, ts) : ts \in Timestamps }
    \cup { BObj({"image"}, im, JNull) : im \in ImageValues }
    \cup { BObj({"image", "timestamp"}, im, ts) :
              im \in ImageValues, ts \in Timestamps }

NoRequest == [route |-> "none", body |-> BAbsent]

(* how the model may behave in a request: it is only called when loaded *)
(* request.json can only raise where there is no usable body *)
Rejections(body) == IF body.kind = "absent" THEN BOOLEAN ELSE {FALSE}

OutcomesNow ==
    IF MODEL_AVAILABLE /\ model # "None" THEN Outcomes ELSE {NoOutcome}

----------------------------------------------------------------------------
(* The state machine *)

(* the model was called and the call, or the reading of a box, raised *)
InferenceRaised(tr) ==
    tr.invoked /\ (tr.outcome.raises \/ tr.outcome.bad # 0)

Init ==
    /\ pc = "import"
    /\ MODEL_AVAILABLE = FALSE
    /\ model = "None"
    /\ startup = "pending"
    /\ failed_before = FALSE
    /\ request = NoRequest
    /\ response = NoResponse
    /\ trace = NoTrace

(* lines 16-21 and 31: `from ultralytics import YOLO` succeeds or raises   *)
(* ImportError; model = None                                               *)
ImportUltralytics ==
    /\ pc = "import"
    /\ \/ MODEL_AVAILABLE' = TRUE
       \/ MODEL_AVAILABLE' = FALSE
    /\ model' = "None"
    /\ pc' = "load"
    /\ UNCHANGED <<startup, failed_before, request, response, trace>>

(* lines 32-38: YOLO('yolov8n.pt') succeeds or raises *)
LoadModel ==
    /\ pc = "load"
    /\ \/ /\ MODEL_AVAILABLE
          /\ model' = "YOLO"
          /\ startup' = "loaded"
          /\ UNCHANGED MODEL_AVAILABLE
       \/ /\ MODEL_AVAILABLE
          /\ MODEL_AVAILABLE' = FALSE
          /\ startup' = "unavailable"
          /\ UNCHANGED model
       \/ /\ ~MODEL_AVAILABLE
          /\ startup' = "unavailable"
          /\ UNCHANGED <<MODEL_AVAILABLE, model>>
    /\ pc' = "serving"
    /\ UNCHANGED <<failed_before, request, response, trace>>

Health ==
    /\ pc = "serving"
    /\ request' = [route |-> "/health", body |-> BAbsent]
    /\ response' = health
    /\ trace' = NoTrace
    /\ pc' = "responded"
    /\ UNCHANGED <<MODEL_AVAILABLE, model, startup, failed_before>>

(* Detect, had the handler marked the model unavailable after a failed    *)
(* inference                                                               *)
DetectDisablesModel ==
    /\ pc = "serving"
    /\ \E body \in Bodies, out \in OutcomesNow :
       \E rejects \in Rejections(body) :
          LET r == detect(body, rejects, out) IN
          /\ request' = [route |-> "/detect", body |-> body]
          /\ response' = r.response
          /\ trace' = r.trace
          /\ failed_before' = (failed_before \/ InferenceRaised(r.trace))
          /\ MODEL_AVAILABLE' = (MODEL_AVAILABLE /\ ~InferenceRaised(r.trace))
    /\ pc' = "responded"
    /\ UNCHANGED <<model, startup>>

Detect ==
    /\ pc = "serving"
    /\ \E body \in Bodies, out \in OutcomesNow :
       \E rejects \in Rejections(body) :
          LET r == detect(body, rejects, out) IN
          /\ request' = [route |-> "/detect", body |-> body]
          /\ response' = r.response
          /\ trace' = r.trace
          /\ failed_before' = (failed_before \/ InferenceRaised(r.trace))
    /\ pc' = "responded"
    /\ UNCHANGED <<MODEL_AVAILABLE, model, startup>>

DetectStream ==
    /\ pc = "serving"
    /\ \E body \in Bodies, out \in OutcomesNow :
       \E rejects \in Rejections(body) :
          LET r == detect_stream(body, rejects, out) IN
          /\ request' = [route |-> "/detect/stream", body |-> body]
          /\ response' = r.response
          /\ trace' = r.trace
          /\ failed_before' = (failed_before \/ InferenceRaised(r.trace))
    /\ pc' = "responded"
    /\ UNCHANGED <<MODEL_AVAILABLE, model, startup>>

(* the response is sent; the request's objects (body, image, detections)  *)
(* do not outlive it                                                       *)
Finish ==
    /\ pc = "responded"
    /\ pc' = "serving"
    /\ request' = NoRequest
    /\ response' = NoResponse
    /\ trace' = NoTrace
    /\ UNCHANGED <<MODEL_AVAILABLE, model, startup, failed_before>>

Next ==
    \/ ImportUltralytics
    \/ LoadModel
    \/ Health
    \/ Detect
    \/ DetectStream
    \/ Finish

Spec == Init /\ [][Next]_vars

----------------------------------------------------------------------------
(* Vocabulary of the properties *)

Responded == pc = "responded"

IsPost == request.route \in {"/detect", "/detect/stream"}

(* the body is a JSON object with an `image` member *)
HasImageKey(body) == body.kind = "obj" /\ "image" \in body.keys

HasImageString(body) == HasImageKey(body) /\ body.image.kind = "str"

(* strictly valid base64 text (RFC 4648): alphabet digits only, length a   *)
(* multiple of four, at most two '=' and only at the end                   *)
IsStrictBase64(s) ==
    /\ Len(s) % 4 = 0
    /\ \A i \in 1..Len(s) :
          \/ s[i] < 64
          \/ s[i] = PAD /\ i >= Len(s) - 1 /\ i > 2
                        /\ \A j \in (i + 1)..Len(s) : s[j] = PAD

(* the decoder as specified: everything after the first comma, or the      *)
(* whole string when there is no comma                                     *)
RefPayload(s) ==
    IF Contains(s, COMMA)
    THEN SubSeq(s, SeqIndexOf(s, COMMA, 1) + 1, Len(s))
    ELSE s

(* the bytes the specified decoder hands to the image parser *)
RefParser(s) ==
    LET d == b64decode(RefPayload(s)) IN
    IF d.ok THEN [called |-> TRUE, bytes |-> d.bytes] ELSE NoParse

(* s is the base64 text of an image, bare or behind a data-URL header *)
ValidImageText(s) ==
    /\ IsStrictBase64(RefPayload(s))
    /\ b64decode(RefPayload(s)).ok
    /\ ImageOpen(b64decode(RefPayload(s)).bytes).ok

ValidImageRequest ==
    /\ HasImageString(request.body)
    /\ ValidImageText(request.body.image.chars)

Abs(x) == IF x < 0 THEN -x ELSE x

(* new is within one pixel of dim * max_size / L *)
WithinOnePixel(new, dim, L) == Abs(new * L - dim * max_size) <= L

(* new is an integer nearest to dim * max_size / L *)
IsNearest(new, dim, L) == 2 * Abs(new * L - dim * max_size) <= L

----------------------------------------------------------------------------
(* C1: on both POST routes a request without a body, or whose JSON body    *)
(* has no `image` key (an object without it, or a value that is no object),*)
(* is answered 400 {error: "No image data provided"}.                      *)
C1_MissingImageIs400 ==
    (Responded /\ IsPost /\ ~HasImageKey(request.body))
        => /\ response.status = 400
           /\ response.fields = {"error"}
           /\ response.error = "No image data provided"

(* C2: on /detect an `image` value that is not the base64 text of a        *)
(* decodable image is answered 400 with an `error` member, and the         *)
(* detector is not called.                                                 *)
C2_UndecodableIs400 ==
    (Responded /\ request.route = "/detect" /\ HasImageKey(request.body)
       /\ ~ValidImageRequest)
        => /\ response.status = 400
           /\ "error" \in response.fields
           /\ ~trace.fed.called
           /\ ~trace.invoked

(* C3: on /detect a valid base64-encoded image is answered 200 with        *)
(* success true, count equal to the number of detections in the response   *)
(* and every confidence within [0, 1] (0..100 hundredths), whatever the    *)
(* state of the model and whatever it does.                                *)
C3_ValidImageIs200 ==
    (Responded /\ request.route = "/detect" /\ ValidImageRequest)
        => /\ response.status = 200
           /\ response.fields = {"success", "detections", "count"}
           /\ response.success = TRUE
           /\ response.count = Len(response.detections)
           /\ \A i \in 1..Len(response.detections) :
                 /\ response.detections[i].confidence >= 0
                 /\ response.detections[i].confidence <= 100

C3_Witness ==
    /\ Responded /\ request.route = "/detect" /\ ValidImageRequest
    /\ trace.invoked
    /\ response.status = 200
    /\ response.count = 2

(* C4: on /detect/stream a decoded image with both sides >= 1 and the      *)
(* longer side above 640 reaches the detector with its longer side <= 640, *)
(* both sides >= 1 and each side within one pixel of the proportional      *)
(* size; the resize step does not produce a 500.                           *)
C4_ResizedImageIsFed ==
    (Responded /\ request.route = "/detect/stream" /\ trace.image.ok
       /\ trace.image.w >= 1 /\ trace.image.h >= 1
       /\ Max(trace.image.w, trace.image.h) > max_size)
        => /\ response.status # 500
           /\ trace.fed.called
           /\ Max(trace.fed.w, trace.fed.h) <= max_size
           /\ trace.fed.w >= 1 /\ trace.fed.h >= 1
           /\ WithinOnePixel(trace.fed.w, trace.image.w,
                             Max(trace.image.w, trace.image.h))
           /\ WithinOnePixel(trace.fed.h, trace.image.h,
                             Max(trace.image.w, trace.image.h))

C6_DegradedMode ==
    /\ (Responded /\ request.route = "/detect" /\ ValidImageRequest
          /\ startup = "unavailable")
          => /\ response.status = 200
             /\ response.count = 0
             /\ response.detections = <<>>
             /\ ~trace.invoked
    /\ (Responded /\ request.route = "/health" /\ startup = "unavailable")
          => (response.status = 200 /\ response.model_loaded = FALSE)

C6_Witness ==
    /\ Responded /\ request.route = "/detect" /\ ValidImageRequest
    /\ startup = "unavailable"
    /\ trace.fed.called
    /\ response.status = 200

(* C7: a successful /detect/stream response has exactly the members        *)
(* detections, count and timestamp; timestamp is the request's value when  *)
(* the request has that key and null when it has not.                      *)
C7_TimestampEchoed ==
    (Responded /\ request.route = "/detect/stream" /\ response.status = 200)
        => /\ response.fields = {"detections", "count", "timestamp"}
           /\ request.body.kind = "obj"
           /\ "timestamp" \in request.body.keys
                 => response.timestamp = request.body.timestamp
           /\ "timestamp" \notin request.body.keys
                 => response.timestamp = JNull

C7_Witness ==
    /\ Responded /\ request.route = "/detect/stream" /\ response.status = 200
    /\ "timestamp" \in request.body.keys
    /\ response.timestamp = JNum(12345)

(* C8: for every `image` string the bytes handed to the image parser are   *)
(* those of the reference decoder: base64 of everything after the first    *)
(* comma, or of the whole string when it has no comma.                     *)
C8_DecoderMatchesReference ==
    (Responded /\ IsPost /\ HasImageString(request.body))
        => trace.parser = RefParser(request.body.image.chars)

(* C9: in /detect/stream the image passed to the detector is the decoded   *)
(* image when its longer side L is <= 640, and otherwise has each side     *)
(* dim * 640 / L rounded to the nearest integer.                           *)
C9_ResizerRoundsToNearest ==
    (Responded /\ request.route = "/detect/stream" /\ trace.fed.called)
        => LET L == Max(trace.image.w, trace.image.h) IN
           IF L <= max_size
           THEN trace.fed.w = trace.image.w /\ trace.fed.h = trace.image.h
           ELSE /\ IsNearest(trace.fed.w, trace.image.w, L)
                /\ IsNearest(trace.fed.h, trace.image.h, L)

(* C10: every POST is answered 200, 400 or 500, an error with exactly the  *)
(* member `error`; when the model call or the reading of a box raises, the *)
(* answer is still 200 with count 0 and no detections; the other           *)
(* exceptions of a handler (an un-iterable or un-indexable body, a resize  *)
(* to an empty size) are answered 500.                                     *)
C10_ExceptionsAreContained ==
    (Responded /\ IsPost)
        => /\ response.status \in {200, 400, 500}
           /\ response.status # 200 => response.fields = {"error"}
           /\ InferenceRaised(trace)
                 => /\ response.status = 200
                    /\ response.count = 0
                    /\ response.detections = <<>>
           /\ (request.body.kind \in {"bool", "num"} /\ request.body.n # 0)
                 => response.status = 500
           /\ (request.route = "/detect/stream" /\ trace.image.ok
                 /\ ~trace.fed.called)
                 => response.status = 500

C10_Witness ==
    /\ Responded /\ IsPost
    /\ trace.invoked
    /\ trace.outcome.bad = 2
    /\ response.status = 200
    /\ response.count = 0

====
